---- MODULE Spec2Model ----
(***************************************************************************)
(* Model of src/negotiation_agent_ultron.py: the round loop of             *)
(* run_negotiation_test together with the numeric strategies of            *)
(* MockBuyerAgent and MockSellerAgent.                                     *)
(*                                                                         *)
(* Prices are Python ints.  Every product with a decimal literal           *)
(* (x * 0.6, x * 1.1, ...) is an IEEE-754 double product in the source;    *)
(* FloatMul models it by the integer interval [lo, hi] that encloses the   *)
(* rounded double, so int(...) and the comparisons against ints are        *)
(* computed as the interpreter computes them.                              *)
(*                                                                         *)
(* NegotiationLLM.call is an external text producer: its reply is drawn    *)
(* from LLMReplies and it is assumed to return.                            *)
(***************************************************************************)
EXTENDS Integers, Sequences, FiniteSets, TLC

(***************************************************************************)
(* Bounds of the explored input space.                                     *)
(***************************************************************************)
MaxSmall == 3
MaxUnits == 12
PriceStep == 5000

(***************************************************************************)
(* Program constants.                                                      *)
(***************************************************************************)
\* variant: the loop runs one round too many
MaxRoundsOffByOne == 10 + 1
MaxRounds == 10
UrgentRound == 8
NearCloseStep == 1000

LLMReplies == {"llm_reply"}

None == << >>
Some(x) == << x >>

Abs(x) == IF x < 0 THEN -x ELSE x
Min(a, b) == IF a < b THEN a ELSE b
Max(a, b) == IF a > b THEN a ELSE b
Last(s) == s[Len(s)]

(***************************************************************************)
(* Decimal literals of the source as doubles.  The literal is p/q; the     *)
(* double nearest to it differs from p/q by the relative error             *)
(* sgn * (a/b) * 2^-53.                                                    *)
(***************************************************************************)
F_0_6  == [p |-> 3,  q |-> 5,  sgn |-> -1, a |-> 1,  b |-> 3]
F_0_85 == [p |-> 17, q |-> 20, sgn |-> -1, a |-> 4,  b |-> 17]
F_0_95 == [p |-> 19, q |-> 20, sgn |-> -1, a |-> 8,  b |-> 19]
F_1_05 == [p |-> 21, q |-> 20, sgn |-> 1,  a |-> 8,  b |-> 21]
F_1_1  == [p |-> 11, q |-> 10, sgn |-> 1,  a |-> 8,  b |-> 11]
F_1_15 == [p |-> 23, q |-> 20, sgn |-> -1, a |-> 16, b |-> 23]
F_1_5  == [p |-> 3,  q |-> 2,  sgn |-> 0,  a |-> 0,  b |-> 1]

RECURSIVE Pow2Floor(_)
Pow2Floor(n) == IF n < 2 THEN 1 ELSE 2 * Pow2Floor(n \div 2)

(***************************************************************************)
(* x * c for an int x and a double c, rounded to nearest-even, given as    *)
(* the integers lo <= x*c <= hi with hi - lo <= 1 (lo = hi iff the double  *)
(* is an integer).  When p*x/q is not an integer the rounding error is far *)
(* smaller than the distance 1/q to the next integer.  When it is an       *)
(* integer n, the exact product n*(1 + sgn*(a/b)*2^-53) rounds back to n   *)
(* iff its distance to n is at most half an ulp of n: n*a <= 2^e * b with  *)
(* 2^e <= n < 2^(e+1) (a tie goes to n, whose mantissa is even).           *)
(***************************************************************************)
FloatMul(x, c) ==
    LET ax  == Abs(x)
        num == c.p * ax
        n   == num \div c.q
        exact == n = 0 \/ c.sgn = 0 \/ n * c.a <= Pow2Floor(n) * c.b
        mlo == IF num % c.q # 0 THEN n
               ELSE IF exact THEN n
               ELSE IF c.sgn < 0 THEN n - 1 ELSE n
        mhi == IF num % c.q # 0 THEN n + 1
               ELSE IF exact THEN n
               ELSE IF c.sgn < 0 THEN n ELSE n + 1
    IN  IF x >= 0 THEN [lo |-> mlo, hi |-> mhi]
                  ELSE [lo |-> -mhi, hi |-> -mlo]

\* int(v): truncation toward zero
PyInt(v) == IF v.lo >= 0 THEN v.lo ELSE v.hi
\* i < v, i > v, i >= v for an int i and a double v
IntLt(i, v) == i < v.hi
IntGt(i, v) == i > v.lo
IntGe(i, v) == i >= v.hi

(***************************************************************************)
(* MockBuyerAgent                                                          *)
(***************************************************************************)
\* variant: the opening offer is not capped at the budget
generate_opening_offer_uncapped(base, budget) ==
    PyInt(FloatMul(base, F_0_6))

generate_opening_offer(base, budget) ==
    Min(PyInt(FloatMul(base, F_0_6)), budget)

\* variant: the accept test uses the 0.6 of the opening offer, not 0.85
respond_to_seller_offer_accepts_below_opening(base, budget, last_offer, sp) ==
    IF sp < budget /\ IntLt(sp, FloatMul(base, F_0_6))
    THEN [status |-> "ACCEPTED", price |-> sp]
    ELSE LET little_incremented_price ==
                 Min(PyInt(FloatMul(last_offer, F_1_1)), budget)
         IN  IF IntGt(little_incremented_price, FloatMul(sp, F_0_95))
             THEN [status |-> "ONGOING",
                   price  |-> Min(sp - NearCloseStep, budget)]
             ELSE [status |-> "ONGOING", price |-> little_incremented_price]

\* variant: the accept test is not strict (<= in both comparisons)
respond_to_seller_offer_nonstrict(base, budget, last_offer, sp) ==
    IF sp <= budget /\ ~IntGt(sp, FloatMul(base, F_0_85))
    THEN [status |-> "ACCEPTED", price |-> sp]
    ELSE LET little_incremented_price ==
                 Min(PyInt(FloatMul(last_offer, F_1_1)), budget)
         IN  IF IntGt(little_incremented_price, FloatMul(sp, F_0_95))
             THEN [status |-> "ONGOING",
                   price  |-> Min(sp - NearCloseStep, budget)]
             ELSE [status |-> "ONGOING", price |-> little_incremented_price]

\* variant: the accept test forgets the budget
respond_to_seller_offer_ignores_budget(base, budget, last_offer, sp) ==
    IF IntLt(sp, FloatMul(base, F_0_85))
    THEN [status |-> "ACCEPTED", price |-> sp]
    ELSE LET little_incremented_price ==
                 Min(PyInt(FloatMul(last_offer, F_1_1)), budget)
         IN  IF IntGt(little_incremented_price, FloatMul(sp, F_0_95))
             THEN [status |-> "ONGOING",
                   price  |-> Min(sp - NearCloseStep, budget)]
             ELSE [status |-> "ONGOING", price |-> little_incremented_price]

respond_to_seller_offer(base, budget, last_offer, sp) ==
    IF sp < budget /\ IntLt(sp, FloatMul(base, F_0_85))
    THEN [status |-> "ACCEPTED", price |-> sp]
    ELSE LET little_incremented_price ==
                 Min(PyInt(FloatMul(last_offer, F_1_1)), budget)
         IN  IF IntGt(little_incremented_price, FloatMul(sp, F_0_95))
             THEN [status |-> "ONGOING",
                   price  |-> Min(sp - NearCloseStep, budget)]
             ELSE [status |-> "ONGOING", price |-> little_incremented_price]

(***************************************************************************)
(* MockSellerAgent                                                         *)
(***************************************************************************)
get_opening_price(base) == PyInt(FloatMul(base, F_1_5))

\* variant: the 10% margin is put on the offer instead of on min_price
respond_to_buyer_offer_margin_on_offer(min_price, offer, round_num) ==
    IF ~IntGt(min_price, FloatMul(offer, F_1_1))
    THEN [price |-> offer, accepted |-> TRUE]
    ELSE IF round_num >= UrgentRound
         THEN [price |-> Max(min_price, PyInt(FloatMul(offer, F_1_05))),
               accepted |-> FALSE]
         ELSE [price |-> Max(min_price, PyInt(FloatMul(offer, F_1_15))),
               accepted |-> FALSE]

\* variant: the counter is not floored at min_price
respond_to_buyer_offer_unfloored(min_price, offer, round_num) ==
    IF IntGe(offer, FloatMul(min_price, F_1_1))
    THEN [price |-> offer, accepted |-> TRUE]
    ELSE IF round_num >= UrgentRound
         THEN [price |-> PyInt(FloatMul(offer, F_1_05)), accepted |-> FALSE]
         ELSE [price |-> PyInt(FloatMul(offer, F_1_15)), accepted |-> FALSE]

respond_to_buyer_offer(min_price, offer, round_num) ==
    IF IntGe(offer, FloatMul(min_price, F_1_1))
    THEN [price |-> offer, accepted |-> TRUE]
    ELSE IF round_num >= UrgentRound
         THEN [price |-> Max(min_price, PyInt(FloatMul(offer, F_1_05))),
               accepted |-> FALSE]
         ELSE [price |-> Max(min_price, PyInt(FloatMul(offer, F_1_15))),
               accepted |-> FALSE]

(***************************************************************************)
(* State of one run of run_negotiation_test                                *)
(***************************************************************************)
VARIABLES
    base_market_price,  \* product.base_market_price
    buyer_budget,       \* argument buyer_budget
    seller_min,         \* argument seller_min (seller.min_price)
    llm_replies,        \* the texts NegotiationLLM.call may return in this run
    your_budget,        \* context.your_budget
    current_round,      \* context.current_round
    seller_offers,      \* context.seller_offers
    your_offers,        \* context.your_offers
    messages,           \* context.messages
    round,              \* loop variable: next value of range(10)
    seller_price, seller_msg, seller_accepts,
    status, buyer_offer, buyer_msg,
    deal_made, final_price,
    result,             \* the returned dict
    pc

ctx == << your_budget, current_round, seller_offers, your_offers, messages >>
inputs == << base_market_price, buyer_budget, seller_min, llm_replies >>
locals == << round, seller_price, seller_msg, seller_accepts,
             status, buyer_offer, buyer_msg, deal_made, final_price >>
vars == << inputs, ctx, locals, result, pc >>

(***************************************************************************)
(* Inputs: small prices, a grid of larger ones, and the scenarios of       *)
(* test_agent.                                                             *)
(***************************************************************************)
Prices == (1 .. MaxSmall) \cup { PriceStep * k : k \in 1 .. MaxUnits }

F_1_2  == [p |-> 6,  q |-> 5,  sgn |-> -1, a |-> 1,  b |-> 3]
F_0_8  == [p |-> 4,  q |-> 5,  sgn |-> 1,  a |-> 1,  b |-> 2]
F_1_0  == [p |-> 1,  q |-> 1,  sgn |-> 0,  a |-> 0,  b |-> 1]
F_0_9  == [p |-> 9,  q |-> 10, sgn |-> 1,  a |-> 2,  b |-> 9]
F_0_82 == [p |-> 41, q |-> 50, sgn |-> -1, a |-> 22, b |-> 41]

TestBases == {180000, 150000}
Scenario(base, fb, fm) ==
    << base, PyInt(FloatMul(base, fb)), PyInt(FloatMul(base, fm)) >>
TestScenarios ==
    { Scenario(base, F_1_2, F_0_8) : base \in TestBases }
    \cup { Scenario(base, F_1_0, F_0_85) : base \in TestBases }
    \cup { Scenario(base, F_0_9, F_0_82) : base \in TestBases }

Inputs == (Prices \X Prices \X Prices) \cup TestScenarios

NoResult == [deal_made |-> FALSE, final_price |-> None, rounds |-> 0, savings |-> 0]

\* the state after the context is constructed, for arguments i and an LLM
\* whose replies range over texts
RunInit(i, texts) ==
    /\ base_market_price = i[1]
    /\ buyer_budget = i[2]
    /\ seller_min = i[3]
    /\ llm_replies = texts
    /\ your_budget = buyer_budget
    /\ current_round = 0
    /\ seller_offers = << >>
    /\ your_offers = << >>
    /\ messages = << >>
    \* locals are unbound until first assigned; the code never reads one earlier
    /\ round = 0
    /\ seller_price = 0
    /\ seller_msg = ""
    /\ seller_accepts = FALSE
    /\ status = "ONGOING"
    /\ buyer_offer = 0
    /\ buyer_msg = ""
    /\ deal_made = FALSE
    /\ final_price = None
    /\ result = NoResult
    /\ pc = "open"

Init == \E i \in Inputs : RunInit(i, LLMReplies)

(***************************************************************************)
(* Runs in which the LLM answers each call with either of two texts: the   *)
(* scenarios of test_agent and one run that exhausts the ten rounds.       *)
(***************************************************************************)
TextReplies == {"llm_reply", "llm_other_reply"}
TextInputs == TestScenarios \cup { << 5000, 5000, 5000 >> }
TextInit == \E i \in TextInputs : RunInit(i, TextReplies)

(***************************************************************************)
(* Calls with arbitrary int arguments: run_negotiation_test takes whatever *)
(* it is given, zero and negative amounts included.                        *)
(***************************************************************************)
Amounts == {-PriceStep, -1, 0, 1, PriceStep, 2 * PriceStep}
UncheckedInputs == Amounts \X Amounts \X Amounts
UncheckedInit == \E i \in UncheckedInputs : RunInit(i, LLMReplies)

(***************************************************************************)
(* run_negotiation_test                                                    *)
(***************************************************************************)
Msg(role, text) == [role |-> role, message |-> text]

\* variant: final_price starts as the opening price instead of None
Open_FinalPriceSet ==
    /\ pc = "open"
    /\ seller_price' = get_opening_price(base_market_price)
    /\ seller_msg' = "seller_opening"
    /\ seller_offers' = Append(seller_offers, seller_price')
    /\ messages' = Append(messages, Msg("seller", seller_msg'))
    /\ deal_made' = FALSE
    /\ final_price' = Some(seller_price')
    /\ pc' = "buyer"
    /\ UNCHANGED << inputs, your_budget, current_round, your_offers, round,
                    seller_accepts, status, buyer_offer, buyer_msg, result >>

\* seller.get_opening_price(product); the opening is recorded
Open ==
    /\ pc = "open"
    /\ seller_price' = get_opening_price(base_market_price)
    /\ seller_msg' = "seller_opening"
    /\ seller_offers' = Append(seller_offers, seller_price')
    /\ messages' = Append(messages, Msg("seller", seller_msg'))
    /\ deal_made' = FALSE
    /\ final_price' = None
    /\ pc' = "buyer"
    /\ UNCHANGED << inputs, your_budget, current_round, your_offers, round,
                    seller_accepts, status, buyer_offer, buyer_msg, result >>

\* round == 0: buyer_agent.generate_opening_offer(context)
BuyerOpening ==
    /\ pc = "buyer"
    /\ round < MaxRounds
    /\ round = 0
    /\ current_round' = round + 1
    /\ buyer_offer' = generate_opening_offer(base_market_price, your_budget)
    /\ buyer_msg' = "buyer_opening"
    /\ status' = "ONGOING"
    /\ pc' = "append_offer"
    /\ UNCHANGED << inputs, your_budget, seller_offers, your_offers, messages,
                    round, seller_price, seller_msg, seller_accepts,
                    deal_made, final_price, result >>

\* variant: the buyer's decision is read off the generated text
BuyerRespond_ReadsText ==
    /\ pc = "buyer"
    /\ round < MaxRounds
    /\ round # 0
    /\ current_round' = round + 1
    /\ \E text \in llm_replies :
          LET r == respond_to_seller_offer(base_market_price, your_budget,
                                           Last(your_offers), seller_price)
          IN  /\ status' = IF text = "llm_reply" THEN r.status ELSE "ACCEPTED"
              /\ buyer_offer' = IF text = "llm_reply" THEN r.price ELSE seller_price
              /\ buyer_msg' = text
    /\ pc' = "append_offer"
    /\ UNCHANGED << inputs, your_budget, seller_offers, your_offers, messages,
                    round, seller_price, seller_msg, seller_accepts,
                    deal_made, final_price, result >>

\* round > 0: buyer_agent.respond_to_seller_offer(context, seller_price, seller_msg)
BuyerRespond ==
    /\ pc = "buyer"
    /\ round < MaxRounds
    /\ round # 0
    /\ current_round' = round + 1
    /\ \E text \in llm_replies :
          LET r == respond_to_seller_offer(base_market_price, your_budget,
                                           Last(your_offers), seller_price)
          IN  /\ status' = r.status
              /\ buyer_offer' = r.price
              /\ buyer_msg' = text
    /\ pc' = "append_offer"
    /\ UNCHANGED << inputs, your_budget, seller_offers, your_offers, messages,
                    round, seller_price, seller_msg, seller_accepts,
                    deal_made, final_price, result >>

\* context.your_offers.append(buyer_offer)
AppendOffer ==
    /\ pc = "append_offer"
    /\ your_offers' = Append(your_offers, buyer_offer)
    /\ pc' = "append_msg"
    /\ UNCHANGED << inputs, your_budget, current_round, seller_offers,
                    messages, locals, result >>

\* variant: the break after the buyer's acceptance is missing
AppendBuyerMsg_NoBreak ==
    /\ pc = "append_msg"
    /\ messages' = Append(messages, Msg("buyer", buyer_msg))
    /\ IF status = "ACCEPTED"
       THEN /\ deal_made' = TRUE
            /\ final_price' = Some(seller_price)
       ELSE UNCHANGED << deal_made, final_price >>
    /\ pc' = "seller"
    /\ UNCHANGED << inputs, your_budget, current_round, seller_offers,
                    your_offers, round, seller_price, seller_msg,
                    seller_accepts, status, buyer_offer, buyer_msg, result >>

\* context.messages.append(buyer message); if status == ACCEPTED: break
AppendBuyerMsg ==
    /\ pc = "append_msg"
    /\ messages' = Append(messages, Msg("buyer", buyer_msg))
    /\ IF status = "ACCEPTED"
       THEN /\ deal_made' = TRUE
            /\ final_price' = Some(seller_price)
            /\ pc' = "return"
       ELSE /\ UNCHANGED << deal_made, final_price >>
            /\ pc' = "seller"
    /\ UNCHANGED << inputs, your_budget, current_round, seller_offers,
                    your_offers, round, seller_price, seller_msg,
                    seller_accepts, status, buyer_offer, buyer_msg, result >>

\* variant: the seller's strategy records its own price in the context
SellerRespond_RecordsPrice ==
    /\ pc = "seller"
    /\ \E text \in llm_replies :
          LET r == respond_to_buyer_offer(seller_min, buyer_offer, round)
          IN  /\ seller_price' = r.price
              /\ seller_accepts' = r.accepted
              /\ seller_msg' = text
              /\ seller_offers' = Append(seller_offers, r.price)
    /\ pc' = "record_seller"
    /\ UNCHANGED << inputs, your_budget, current_round, your_offers, messages,
                    round, status, buyer_offer, buyer_msg,
                    deal_made, final_price, result >>

\* seller.respond_to_buyer_offer(buyer_offer, round, buyer_msg)
SellerRespond ==
    /\ pc = "seller"
    /\ \E text \in llm_replies :
          LET r == respond_to_buyer_offer(seller_min, buyer_offer, round)
          IN  /\ seller_price' = r.price
              /\ seller_accepts' = r.accepted
              /\ seller_msg' = text
    /\ pc' = "record_seller"
    /\ UNCHANGED << inputs, ctx, round, status, buyer_offer, buyer_msg,
                    deal_made, final_price, result >>

\* variant: a seller acceptance closes at the seller's last quoted price
RecordSeller_SellerPrice ==
    /\ pc = "record_seller"
    /\ messages' = Append(messages, Msg("seller", seller_msg))
    /\ IF seller_accepts
       THEN /\ deal_made' = TRUE
            /\ final_price' = Some(Last(seller_offers))
            /\ pc' = "return"
            /\ UNCHANGED << seller_offers, round >>
       ELSE /\ seller_offers' = Append(seller_offers, seller_price)
            /\ round' = round + 1
            /\ pc' = "buyer"
            /\ UNCHANGED << deal_made, final_price >>
    /\ UNCHANGED << inputs, your_budget, current_round, your_offers,
                    seller_price, seller_msg, seller_accepts, status,
                    buyer_offer, buyer_msg, result >>

\* variant: the message of a counter is not logged
RecordSeller_NoCounterMessage ==
    /\ pc = "record_seller"
    /\ IF seller_accepts
       THEN /\ deal_made' = TRUE
            /\ final_price' = Some(buyer_offer)
            /\ messages' = Append(messages, Msg("seller", seller_msg))
            /\ pc' = "return"
            /\ UNCHANGED << seller_offers, round >>
       ELSE /\ seller_offers' = Append(seller_offers, seller_price)
            /\ round' = round + 1
            /\ pc' = "buyer"
            /\ UNCHANGED << messages, deal_made, final_price >>
    /\ UNCHANGED << inputs, your_budget, current_round, your_offers,
                    seller_price, seller_msg, seller_accepts, status,
                    buyer_offer, buyer_msg, result >>

\* variant: the seller's counter is not recorded in seller_offers
RecordSeller_NoRecord ==
    /\ pc = "record_seller"
    /\ messages' = Append(messages, Msg("seller", seller_msg))
    /\ IF seller_accepts
       THEN /\ deal_made' = TRUE
            /\ final_price' = Some(buyer_offer)
            /\ pc' = "return"
            /\ UNCHANGED << seller_offers, round >>
       ELSE /\ round' = round + 1
            /\ pc' = "buyer"
            /\ UNCHANGED << seller_offers, deal_made, final_price >>
    /\ UNCHANGED << inputs, your_budget, current_round, your_offers,
                    seller_price, seller_msg, seller_accepts, status,
                    buyer_offer, buyer_msg, result >>

\* if seller_accepts: close at buyer_offer and break; else record the counter
RecordSeller ==
    /\ pc = "record_seller"
    /\ messages' = Append(messages, Msg("seller", seller_msg))
    /\ IF seller_accepts
       THEN /\ deal_made' = TRUE
            /\ final_price' = Some(buyer_offer)
            /\ pc' = "return"
            /\ UNCHANGED << seller_offers, round >>
       ELSE /\ seller_offers' = Append(seller_offers, seller_price)
            /\ round' = round + 1
            /\ pc' = "buyer"
            /\ UNCHANGED << deal_made, final_price >>
    /\ UNCHANGED << inputs, your_budget, current_round, your_offers,
                    seller_price, seller_msg, seller_accepts, status,
                    buyer_offer, buyer_msg, result >>

\* range(10) is exhausted
LoopExit ==
    /\ pc = "buyer"
    /\ round >= MaxRounds
    /\ pc' = "return"
    /\ UNCHANGED << inputs, ctx, locals, result >>

\* the returned dict.  Of the two percentage fields only their divisions are
\* modelled: after a deal, savings_pct divides by buyer_budget and
\* below_market_pct by base_market_price, and a zero divisor raises
\* ZeroDivisionError instead of returning.
Return ==
    /\ pc = "return"
    /\ IF deal_made /\ (buyer_budget = 0 \/ base_market_price = 0)
       THEN /\ pc' = "raised"
            /\ UNCHANGED result
       ELSE /\ result' = [deal_made   |-> deal_made,
                          final_price |-> final_price,
                          rounds      |-> current_round,
                          savings     |-> IF deal_made
                                          THEN buyer_budget - final_price[1]
                                          ELSE 0]
            /\ pc' = "done"
    /\ UNCHANGED << inputs, ctx, locals >>

Next ==
    \/ Open
    \/ BuyerOpening
    \/ BuyerRespond
    \/ AppendOffer
    \/ AppendBuyerMsg
    \/ SellerRespond
    \/ RecordSeller
    \/ LoopExit
    \/ Return

Spec == Init /\ [][Next]_vars

TextSpec == TextInit /\ [][Next]_vars

UncheckedSpec == UncheckedInit /\ [][Next]_vars

\* the loop is sequential code: every enabled step is eventually taken
FairSpec == Spec /\ WF_vars(Next)

Done == pc = "done"
FinalPrice == final_price[1]
OfferProbe == Prices \cup {0} \cup { -x : x \in Prices }

(***************************************************************************)
(* C1: every buyer offer recorded in context.your_offers (the opening      *)
(* offer, every counter-offer and an accepted price) is at most the        *)
(* buyer's budget.                                                         *)
(***************************************************************************)
C1_OffersWithinBudget ==
    \A i \in 1 .. Len(your_offers) : your_offers[i] <= your_budget

\* the opening offer was cut down to the budget and the run went on
C1_Witness ==
    /\ Done
    /\ Len(your_offers) >= 2
    /\ PyInt(FloatMul(base_market_price, F_0_6)) > your_budget
    /\ your_offers[1] = your_budget

(***************************************************************************)
(* C2: the buyer offers of a run are monotonically non-decreasing:         *)
(* your_offers[i] <= your_offers[i+1] for every pair of consecutive        *)
(* entries.                                                                *)
(***************************************************************************)
C2_BuyerOffersNonDecreasing ==
    \A i \in 1 .. Len(your_offers) - 1 : your_offers[i] <= your_offers[i + 1]

(***************************************************************************)
(* C3: the seller prices of a run are monotonically non-increasing:        *)
(* seller_offers[i] >= seller_offers[i+1] for every pair of consecutive    *)
(* entries (opening price followed by the counters).                       *)
(***************************************************************************)
C3_SellerOffersNonIncreasing ==
    \A i \in 1 .. Len(seller_offers) - 1 : seller_offers[i] >= seller_offers[i + 1]

(***************************************************************************)
(* C4: every counter price the seller returns when it does not accept is   *)
(* at least min_price, in any round and for any buyer offer.               *)
(***************************************************************************)
C4_CounterAtLeastMin ==
    /\ (pc = "record_seller" /\ ~seller_accepts) => seller_price >= seller_min
    /\ \A i \in 2 .. Len(seller_offers) : seller_offers[i] >= seller_min
    \* the strategy as a function, probed once per run for offers the run
    \* itself may not produce
    /\ pc = "open" =>
          \A o \in OfferProbe : \A rn \in 0 .. 9 :
             LET r == respond_to_buyer_offer(seller_min, o, rn)
             IN  ~r.accepted => r.price >= seller_min

\* the marked-up buyer offer lay below min_price and the floor took over
C4_Witness ==
    /\ pc = "record_seller"
    /\ ~seller_accepts
    /\ PyInt(FloatMul(buyer_offer, F_1_15)) < seller_min
    /\ seller_price = seller_min

(***************************************************************************)
(* C5: when the buyer signals ACCEPTED in round r (r >= 2) the run ends in *)
(* round r without the seller being invoked again, with deal_made = true,  *)
(* rounds = r and final_price equal to the last entry of seller_offers,    *)
(* the price the seller quoted at the end of round r-1.                    *)
(***************************************************************************)
C5_BuyerAcceptCloses ==
    status = "ACCEPTED" =>
        /\ pc \in {"append_offer", "append_msg", "return", "done"}
        /\ current_round >= 2
        /\ Len(seller_offers) = current_round
        /\ Done =>
              /\ result.deal_made
              /\ result.rounds = current_round
              /\ result.final_price = Some(Last(seller_offers))
              /\ Len(your_offers) = current_round

C5_Witness ==
    /\ Done
    /\ status = "ACCEPTED"
    /\ current_round >= 2
    /\ result.final_price = Some(Last(seller_offers))

(***************************************************************************)
(* C6: when the seller's acceptance test passes on the buyer's offer of    *)
(* round r the run ends in round r with deal_made = true, rounds = r and   *)
(* final_price equal to the buyer's offer of that round (the last entry of *)
(* your_offers), never a price quoted by the seller.                       *)
(***************************************************************************)
C6_SellerAcceptCloses ==
    seller_accepts =>
        /\ pc \in {"record_seller", "return", "done"}
        /\ Len(your_offers) = current_round
        /\ Len(seller_offers) = current_round
        /\ buyer_offer = Last(your_offers)
        /\ pc \in {"return", "done"} =>
              /\ deal_made
              /\ final_price = Some(Last(your_offers))
              /\ FinalPrice < Last(seller_offers)
        /\ Done =>
              /\ result.deal_made
              /\ result.rounds = current_round
              /\ result.final_price = Some(Last(your_offers))

C6_Witness ==
    /\ Done
    /\ seller_accepts
    /\ current_round >= 2
    /\ result.final_price = Some(Last(your_offers))

(***************************************************************************)
(* C7: every run terminates, after at most 10 rounds: current_round never  *)
(* exceeds 10 and the reported rounds value lies between 1 and 10.         *)
(***************************************************************************)
C7_TerminatesWithinTenRounds ==
    /\ [](current_round <= 10)
    /\ [](Done => result.rounds \in 1 .. 10)
    /\ <>Done

\* a run that used the last round and still closed a deal
C7_Witness ==
    /\ Done
    /\ result.rounds = 10
    /\ result.deal_made

(***************************************************************************)
(* C8: if neither side accepts in any of the 10 rounds the run ends with   *)
(* no deal (deal_made = false, final_price None, savings = 0, rounds = 10);*)
(* conversely deal_made = true only if an acceptance occurred, and then    *)
(* final_price is present.                                                 *)
(***************************************************************************)
C8_NoAcceptNoDeal ==
    Done =>
        /\ (status # "ACCEPTED" /\ ~seller_accepts) =>
              result = [deal_made |-> FALSE, final_price |-> None,
                        rounds |-> 10, savings |-> 0]
        /\ result.deal_made =>
              /\ status = "ACCEPTED" \/ seller_accepts
              /\ result.final_price # None

C8_Witness ==
    /\ Done
    /\ status # "ACCEPTED"
    /\ ~seller_accepts
    /\ Len(your_offers) = 10
    /\ ~result.deal_made

(***************************************************************************)
(* C9: whenever a run ends with deal_made = true and budget >= min_price,  *)
(* final_price <= budget, i.e. savings = budget - final_price >= 0.        *)
(***************************************************************************)
C9_SavingsNonNegative ==
    (Done /\ result.deal_made /\ buyer_budget >= seller_min) =>
        /\ result.final_price[1] <= buyer_budget
        /\ result.savings = buyer_budget - result.final_price[1]
        /\ result.savings >= 0

\* a deal closed exactly at the budget after some rounds of haggling
C9_Witness ==
    /\ Done
    /\ result.deal_made
    /\ buyer_budget >= seller_min
    /\ result.rounds >= 2
    /\ result.final_price = Some(buyer_budget)

(***************************************************************************)
(* C10: in every reachable state the lengths of context.seller_offers and  *)
(* context.your_offers are equal or differ by at most one.                 *)
(***************************************************************************)
C10_HistoriesInStep ==
    Len(seller_offers) - Len(your_offers) \in {-1, 0, 1}

\* between the two halves of a later round the histories are level
C10_Witness ==
    /\ pc = "seller"
    /\ Len(your_offers) >= 2
    /\ Len(seller_offers) = Len(your_offers)

(***************************************************************************)
(* C11: the numeric course of a negotiation does not depend on generated   *)
(* text.  Whatever texts the LLM returned, the finished run's buyer        *)
(* offers, seller offers and outcome (deal_made, final_price, rounds,      *)
(* savings) are the ones fixed by base_market_price, budget and min_price  *)
(* alone: each entry follows from the entries before it by the numeric     *)
(* rules, so two runs with the same three inputs and different texts end   *)
(* with identical numbers.                                                 *)
(***************************************************************************)
C11_NumbersIgnoreText ==
    Done =>
        LET n  == Len(your_offers)
            bR(i) == respond_to_seller_offer(base_market_price, buyer_budget,
                                             your_offers[i - 1], seller_offers[i])
            sR(i) == respond_to_buyer_offer(seller_min, your_offers[i], i - 1)
            \* every round before the last: both sides countered
            Countered(i) ==
                LET b == bR(i)
                    c == sR(i - 1)
                IN  /\ ~c.accepted
                    /\ seller_offers[i] = c.price
                    /\ your_offers[i] = b.price
                    /\ i < n => b.status = "ONGOING"
            closed == result.deal_made
            byBuyer == closed /\ result.final_price = Some(seller_offers[n])
        IN  /\ n >= 1
            /\ seller_offers[1] = get_opening_price(base_market_price)
            /\ your_offers[1] = generate_opening_offer(base_market_price, buyer_budget)
            /\ \A i \in 2 .. n : Countered(i)
            \* how the last round ended is decided by the numbers alone
            /\ n >= 2 => (byBuyer <=> bR(n).status = "ACCEPTED")
            /\ n = 1 => ~byBuyer
            /\ ~byBuyer =>
                  LET c == sR(n)
                  IN  /\ closed = c.accepted
                      /\ ~closed => /\ n = 10
                                    /\ Len(seller_offers) = n + 1
                                    /\ seller_offers[n + 1] = c.price
                                    /\ result.final_price = None
                                    /\ result.savings = 0
                      /\ closed  => /\ result.final_price = Some(your_offers[n])
                                    /\ your_offers[n] < seller_offers[n]
            /\ closed => /\ Len(seller_offers) = n
                         /\ result.savings = buyer_budget - result.final_price[1]
            /\ result.rounds = n

\* a finished run of several rounds whose transcript holds both LLM texts
C11_Witness ==
    /\ Done
    /\ Len(your_offers) >= 3
    /\ \E i, j \in 1 .. Len(messages) :
          /\ messages[i].message = "llm_reply"
          /\ messages[j].message = "llm_other_reply"

(***************************************************************************)
(* C12: every buyer offer recorded in a run is >= 0: when the              *)
(* near-convergence adjustment seller_price - 1000 would be negative the   *)
(* offer is clamped to a floor of at least 0, for all positive inputs.     *)
(***************************************************************************)
C12_OffersNonNegative ==
    \A i \in 1 .. Len(your_offers) : your_offers[i] >= 0

(***************************************************************************)
(* C13: called with a non-positive budget or a non-positive base market    *)
(* price, run_negotiation_test starts no negotiation: no offer is computed *)
(* or recorded and no outcome report is returned.                          *)
(***************************************************************************)
C13_InvalidInputRefused ==
    (buyer_budget <= 0 \/ base_market_price <= 0) =>
        /\ seller_offers = << >>
        /\ your_offers = << >>
        /\ messages = << >>
        /\ ~Done

EasyScenario ==
    /\ base_market_price = 180000
    /\ buyer_budget = 216000
    /\ seller_min = 144000

(***************************************************************************)
(* C14 as claimed: the easy scenario (base 180000, budget 216000,          *)
(* min_price 144000) ends with a deal within 3 rounds, closed by the       *)
(* seller's acceptance test passing on a buyer offer >= 1.1 * min_price.   *)
(***************************************************************************)
C14_EasyScenarioSellerCloses ==
    (EasyScenario /\ Done) =>
        /\ result.deal_made
        /\ result.rounds <= 3
        /\ seller_accepts
        /\ IntGe(Last(your_offers), FloatMul(seller_min, F_1_1))
        /\ result.final_price = Some(Last(your_offers))

(***************************************************************************)
(* C14 as amended: the easy scenario ends with a deal within 3 rounds (in  *)
(* round 2), closed by the buyer's accept test passing on the seller's     *)
(* first counter, which is min_price = 144000 (below the budget and below  *)
(* 0.85 * base); the seller's acceptance test never passes, the opening    *)
(* offer 108000 being below 1.1 * min_price.                               *)
(***************************************************************************)
C14_EasyScenarioBuyerCloses ==
    EasyScenario =>
        /\ pc # "raised"
        /\ ~seller_accepts
        /\ \A i \in 1 .. Len(your_offers) :
              your_offers[i] = 108000 \/ status = "ACCEPTED"
        /\ Done =>
              /\ result.deal_made
              /\ result.rounds <= 3
              /\ result.rounds = 2
              /\ status = "ACCEPTED"
              /\ seller_offers = << 270000, 144000 >>
              /\ result.final_price = Some(seller_min)
              /\ result.savings = 72000

C14_Witness ==
    /\ EasyScenario
    /\ Done
    /\ result.deal_made

\* the buyer's strategy has just answered the seller's price of the last round
BuyerAnswered == pc = "append_offer" /\ current_round >= 2

\* seller prices at and next to the two thresholds of the buyer's accept test
AcceptProbe ==
    LET t == (17 * base_market_price) \div 20
    IN  {t - 1, t, t + 1, buyer_budget - 1, buyer_budget, buyer_budget + 1}

(***************************************************************************)
(* C15: in any round >= 2 the buyer signals ACCEPTED if and only if        *)
(* seller_price < budget and seller_price < 0.85 * base_market_price, both *)
(* strict (a seller_price equal to the budget or to exactly 0.85 * base is *)
(* not accepted), and on acceptance the price returned is seller_price.    *)
(* 0.85 * base is taken exactly: seller_price < 0.85 * base iff            *)
(* 20 * seller_price < 17 * base.                                          *)
(***************************************************************************)
C15_BuyerAcceptTest ==
    /\ BuyerAnswered =>
          /\ (status = "ACCEPTED") <=>
                (seller_price < your_budget
                   /\ 20 * seller_price < 17 * base_market_price)
          /\ status = "ACCEPTED" => buyer_offer = seller_price
    /\ pc = "open" =>
          \A sp \in AcceptProbe : \A last \in {0, buyer_budget} :
             LET r == respond_to_seller_offer(base_market_price, buyer_budget,
                                              last, sp)
             IN  /\ (r.status = "ACCEPTED") <=>
                       (sp < buyer_budget /\ 20 * sp < 17 * base_market_price)
                 /\ r.status = "ACCEPTED" => r.price = sp

\* the seller asks exactly 0.85 * base, within budget, and is not accepted
C15_Witness ==
    /\ BuyerAnswered
    /\ seller_price < your_budget
    /\ 20 * seller_price = 17 * base_market_price
    /\ status = "ONGOING"

(***************************************************************************)
(* C16: when the buyer does not accept, its counter-offer is computed from *)
(* its own previous offer as candidate = min(floor(last_own_offer * 1.1),  *)
(* budget); if candidate > 0.95 * seller_price the offer is                *)
(* min(seller_price - 1000, budget), otherwise it is candidate; the status *)
(* returned is ONGOING.  (\div is the floor of the quotient.)              *)
(***************************************************************************)
C16_CounterOfferRule ==
    (BuyerAnswered /\ status # "ACCEPTED") =>
        LET candidate == Min((11 * Last(your_offers)) \div 10, your_budget)
        IN  /\ status = "ONGOING"
            /\ buyer_offer = IF 20 * candidate > 19 * seller_price
                             THEN Min(seller_price - 1000, your_budget)
                             ELSE candidate

\* the seller's strategy has just declined the buyer's offer of this round
SellerCountered == pc = "record_seller" /\ ~seller_accepts

(***************************************************************************)
(* C17: when the seller does not accept, its counter depends on the        *)
(* current round number (context.current_round, counted 1..10): in every   *)
(* round with current round number >= 8 the counter is                     *)
(* max(min_price, floor(buyer_offer * 1.05)), in every earlier round it is *)
(* max(min_price, floor(buyer_offer * 1.15)).                              *)
(***************************************************************************)
C17_CounterByRoundNumber ==
    SellerCountered =>
        seller_price = IF current_round >= 8
                       THEN Max(seller_min, (21 * buyer_offer) \div 20)
                       ELSE Max(seller_min, (23 * buyer_offer) \div 20)

IsPrefix(s, t) == Len(s) <= Len(t) /\ \A i \in 1 .. Len(s) : s[i] = t[i]

(***************************************************************************)
(* C18: the strategy operations (generate_opening_offer,                   *)
(* respond_to_seller_offer, get_opening_price, respond_to_buyer_offer)     *)
(* leave the NegotiationContext unchanged: budget, current_round,          *)
(* seller_offers, your_offers and messages are modified only by the        *)
(* orchestrator's own steps, and the two offer histories are append-only.  *)
(* The step that calls a buyer strategy also holds the orchestrator's      *)
(* assignment context.current_round = round + 1; the opening step calls    *)
(* get_opening_price and then appends what it returned.                    *)
(***************************************************************************)
C18_StrategiesReadOnly ==
    [][ /\ your_budget' = your_budget
        /\ IsPrefix(seller_offers, seller_offers')
        /\ IsPrefix(your_offers, your_offers')
        /\ IsPrefix(messages, messages')
        \* the seller's strategy call
        /\ pc = "seller" => ctx' = ctx
        \* the buyer's strategy calls
        /\ pc = "buyer" =>
              /\ << seller_offers, your_offers, messages >>' =
                    << seller_offers, your_offers, messages >>
              /\ current_round' \in {current_round, round + 1}
        \* get_opening_price returns the one entry the orchestrator appends
        /\ pc = "open" =>
              /\ seller_offers' = << get_opening_price(base_market_price) >>
              /\ your_offers' = your_offers
              /\ current_round' = current_round
        \* the orchestrator's steps: one entry at a time, round untouched
        /\ pc \in {"append_offer", "append_msg", "record_seller", "return"} =>
              /\ current_round' = current_round
              /\ Len(seller_offers') + Len(your_offers') <=
                    Len(seller_offers) + Len(your_offers) + 1
      ]_vars

\* the seller's strategy has answered in a later round and the context still
\* holds what the orchestrator last wrote
C18_Witness ==
    /\ pc = "record_seller"
    /\ current_round >= 2
    /\ Len(your_offers) = current_round
    /\ Len(seller_offers) = current_round
    /\ Len(messages) = 2 * current_round

(***************************************************************************)
(* C19: whenever a run ends with deal_made = true, final_price >=          *)
(* min_price, whichever side accepted: a buyer acceptance closes at a      *)
(* seller counter, which is floored at min_price, and a seller acceptance  *)
(* closes at a buyer offer >= 1.1 * min_price.                             *)
(***************************************************************************)
C19_NeverBelowReservation ==
    (Done /\ result.deal_made) =>
        /\ result.final_price[1] >= seller_min
        /\ status = "ACCEPTED" =>
              /\ Len(seller_offers) >= 2
              /\ result.final_price = Some(Last(seller_offers))
        /\ status # "ACCEPTED" =>
              10 * result.final_price[1] >= 11 * seller_min

\* the seller accepted an offer that just cleared its 10% margin
C19_Witness ==
    /\ Done
    /\ result.deal_made
    /\ seller_accepts
    /\ result.rounds >= 2
    /\ 10 * result.final_price[1] < 12 * seller_min

(***************************************************************************)
(* C20: in every reachable state the message log strictly alternates roles *)
(* starting with the seller (seller, buyer, seller, buyer, ...), so no two *)
(* consecutive entries carry the same role, and the buyer message of round *)
(* r is appended only after that round's offer is in your_offers: the log  *)
(* never holds more buyer messages than your_offers holds offers.          *)
(***************************************************************************)
C20_LogAlternates ==
    /\ \A i \in 1 .. Len(messages) :
          messages[i].role = IF i % 2 = 1 THEN "seller" ELSE "buyer"
    /\ \A i \in 1 .. Len(messages) - 1 :
          messages[i].role # messages[i + 1].role
    /\ Cardinality({ i \in 1 .. Len(messages) : messages[i].role = "buyer" })
          <= Len(your_offers)

\* a later round's offer is recorded and its message is still to be logged
C20_Witness ==
    /\ pc = "append_msg"
    /\ current_round >= 2
    /\ Len(your_offers) = current_round
    /\ Len(messages) = 2 * current_round - 1
    /\ Last(messages).role = "seller"

====
